---- MODULE Spec2Model ----
(***************************************************************************)
(* Model of spyder/plugins/editor/lsp/manager.py: LSPManager, the manager  *)
(* of the LSP clients, one per language, defined in the Preferences.       *)
(*                                                                         *)
(* Every public method of LSPManager is one action.  The manager lives in  *)
(* the Qt main thread, so a method runs to completion (or to the exception *)
(* that ends it) before the next one begins.  The collaborators the        *)
(* manager calls (LSPClient, CONF, select_port, os.environ, the projects   *)
(* plugin) are the environment: their calls are logged in last.calls, and  *)
(* their results are inputs of the actions.  The record of a call, last,   *)
(* lives until the method's caller has the result (action Return); the     *)
(* next call is made after that.                                           *)
(*                                                                         *)
(* Spec has clients whose start() and stop() may raise and a select_port   *)
(* that may find no port; SpecReliable has none of these failures.         *)
(* SpecOverlap drops the one-method-at-a-time assumption for start_client, *)
(* which itself does nothing to enforce it: two calls of it run in steps.  *)
(***************************************************************************)
EXTENDS Integers, Sequences, FiniteSets, TLC

\* ------------------------------------------------------------------ bounds
MaxQueue == 2        \* file registrations waiting in all the queues together
MaxPort == 2         \* ports are 1..MaxPort

\* --------------------------------------------------------------- constants
STOPPED == "stopped"
RUNNING == "running"
None == 0            \* the empty 'instance' slot; LSPClient objects are 1 and 2

\* Languages in the order CONF.options('lsp-server') lists them, which is
\* also the insertion order of the self.clients dictionary.
LangOrder == <<"python", "r">>
Langs == {LangOrder[i] : i \in 1..Len(LangOrder)}

\* [l.lower() for l in LSP_LANGUAGES]: the Preferences only offer the
\* languages of LSP_LANGUAGES, so every option of the section is one of them.
LSP_LANGUAGES == Langs

Ports == 1..MaxPort
Files == {"a.py"}
Signals == {"sig"}
PluginTypes == {"editor"}
Requests == {"completion"}
NoProject == "no project"
\* What main.projects.get_active_project_path() may return to a method.
Projects == {NoProject, "/project"}

\* os.environ as the process finds it: outside the CIs, and in a CI with
\* and without the demand for the LSP services.
Environments ==
    { [CI |-> FALSE, SPY_TEST_USE_INTROSPECTION |-> FALSE],
      [CI |-> TRUE, SPY_TEST_USE_INTROSPECTION |-> FALSE],
      [CI |-> TRUE, SPY_TEST_USE_INTROSPECTION |-> TRUE] }

restart_diff == {"cmd", "args", "host", "port", "external"}

BaseConfig ==
    [cmd |-> "pyls", args |-> "--tcp", host |-> "127.0.0.1", port |-> 1,
     external |-> FALSE, configurations |-> "plugins1"]

RConfig == [BaseConfig EXCEPT !.cmd = "rls", !.host = "10.0.0.1", !.external = TRUE]

\* The configurations the Preferences may hold for a language.  The server
\* of python is one the manager spawns; the server of r is an external one.
ConfChoices(language) ==
    IF language = "python"
    THEN { BaseConfig,
           [BaseConfig EXCEPT !.cmd = "pyls2"] }
    ELSE { RConfig,
           [RConfig EXCEPT !.host = "10.0.0.2"],
           [RConfig EXCEPT !.configurations = "plugins2"] }

VARIABLES
    clients,            \* self.clients: language -> [status, config, instance]
    register_queue,     \* self.register_queue: language -> sequence of (filename, signal)
    lsp_plugins,        \* self.lsp_plugins: sequence of <<type, sig>>, one per type
    CONF,               \* the 'lsp-server' section of CONF: language -> configuration
    environ,            \* os.environ: [CI, SPY_TEST_USE_INTROSPECTION]
    last,               \* the last method call: [op, arg, ret, raised, calls]
    starting            \* the start_client calls in progress: [pc, language, calls]

vars == <<clients, register_queue, lsp_plugins, CONF, environ, last, starting>>

\* ----------------------------------------------------------------- helpers
\* Iteration order of a dictionary whose keys are the set S.
RECURSIVE OrderOf(_, _)
OrderOf(S, i) ==
    IF i > Len(LangOrder) THEN <<>>
    ELSE (IF LangOrder[i] \in S THEN <<LangOrder[i]>> ELSE <<>>) \o OrderOf(S, i + 1)

Call(name, language, instance, arg) ==
    [call |-> name, language |-> language, instance |-> instance, arg |-> arg]

\* The manager's mutable state while a method runs, with the collaborator
\* calls made so far, the value returned and whether an exception ended it.
Machine ==
    [clients |-> clients, register_queue |-> register_queue,
     calls |-> <<>>, ret |-> "None", raised |-> FALSE]

\* The object LSPClient(...) returns for a language: one that is not the
\* object the language's record holds when the method begins.  A method
\* constructs at most one client for a language.
NewInstance(language) ==
    IF language \in DOMAIN clients /\ clients[language].instance = 1 THEN 2 ELSE 1

\* utils.misc.select_port finds no port: every port from default_port on is
\* held by another process.
NoFreePort(default_port, busy) ==
    \A p \in default_port..MaxPort : p \in busy

\* utils.misc.select_port: the first port from default_port on that is free.
select_port(default_port, busy) ==
    CHOOSE p \in default_port..MaxPort :
        /\ p \notin busy
        /\ \A q \in default_port..(p - 1) : q \in busy

\* project is what main.projects.get_active_project_path() returns.
get_root_path(language, project) ==
    IF project # NoProject THEN project
    ELSE IF language = "python" THEN "lsp_root_path"
    ELSE "getcwd_or_home"

\* The test of lines 125-126 as it would be without its second half.
SuppressedByCIAlone == environ.CI

SuppressedByCI == environ.CI /\ ~environ.SPY_TEST_USE_INTROSPECTION

\* start_client as it would be if it replayed no plugin registration.
NoPluginCalls(language, instance, i) == <<>>

\* The register_plugin_type calls start_client makes on a new instance.
RECURSIVE PluginCalls(_, _, _)
PluginCalls(language, instance, i) ==
    IF i > Len(lsp_plugins) THEN <<>>
    ELSE <<Call("register_plugin_type", language, instance, lsp_plugins[i])>>
         \o PluginCalls(language, instance, i + 1)

\* ------------------------------------------------------------ close_client
close_client(m, language, fail_stop) ==
    IF language \notin DOMAIN m.clients THEN m
    ELSE LET language_client == m.clients[language] IN
         IF language_client.status = RUNNING
         THEN LET m1 == [m EXCEPT !.calls =
                            Append(@, Call("stop", language, language_client.instance, "-"))]
              IN IF language \in fail_stop
                 THEN [m1 EXCEPT !.raised = TRUE]
                 ELSE [m1 EXCEPT !.clients[language].status = STOPPED]
         ELSE [m EXCEPT !.clients[language].status = STOPPED]

\* ------------------------------------------------------------ start_client
start_client(m, language, project, busy, fail_start) ==
    IF language \notin DOMAIN m.clients THEN [m EXCEPT !.ret = "False"]
    ELSE IF SuppressedByCI THEN [m EXCEPT !.ret = "False"]
    ELSE
      LET language_client == m.clients[language]
          queue == m.register_queue[language]
      IN
      IF language_client.status = STOPPED
      THEN
        LET spawned == ~language_client.config.external
            m0 == IF spawned
                  THEN [m EXCEPT !.calls =
                          Append(@, Call("select_port", language, None,
                                         language_client.config.port))]
                  ELSE m
        IN
        IF spawned /\ NoFreePort(language_client.config.port, busy)
        THEN [m0 EXCEPT !.raised = TRUE]
        ELSE
        LET config == IF spawned
                      THEN [language_client.config EXCEPT
                               !.port = select_port(@, busy)]
                      ELSE language_client.config
            instance == NewInstance(language)
            m1 == [m0 EXCEPT
                     !.clients[language].config = config,
                     !.clients[language].instance = instance,
                     !.calls = @ \o <<Call("get_active_project_path", language,
                                           None, project),
                                      Call("LSPClient", language, instance,
                                           [server_settings |-> config,
                                            folder |-> get_root_path(language, project)])>>
                                 \o PluginCalls(language, instance, 1)
                                 \o <<Call("start", language, instance, "-")>>]
        IN
        IF language \in fail_start
        THEN [m1 EXCEPT !.raised = TRUE]
        ELSE IF queue # <<>>
        \* language_client is the dictionary: it has no register_file
        THEN [m1 EXCEPT !.clients[language].status = RUNNING, !.raised = TRUE]
        ELSE [m1 EXCEPT !.clients[language].status = RUNNING,
                        !.register_queue[language] = <<>>,
                        !.ret = "False"]
      ELSE [m EXCEPT !.ret = IF language_client.status = RUNNING
                             THEN "True" ELSE "False"]

\* ---------------------------------------------------------------- shutdown
RECURSIVE close_each(_, _, _, _, _)
\* for language in self.clients: if language not in keep: close_client
close_each(m, order, i, keep, fail_stop) ==
    IF i > Len(order) \/ m.raised THEN m
    ELSE close_each(IF order[i] \in keep THEN m
                    ELSE close_client(m, order[i], fail_stop),
                    order, i + 1, keep, fail_stop)

shutdown(m, fail_stop) ==
    close_each(m, OrderOf(DOMAIN m.clients, 1), 1, {}, fail_stop)

update_client_status(m, active_set, fail_stop) ==
    close_each(m, OrderOf(DOMAIN m.clients, 1), 1, active_set, fail_stop)

\* ------------------------------------------------------ update_server_list
NeedsRestart(current_config, new_config) ==
    \E x \in restart_diff : current_config[x] # new_config[x]

\* The body of the loop of update_server_list for one option.
update_one(m, option, project, busy, fail_start, fail_stop) ==
    IF option \notin LSP_LANGUAGES THEN m
    ELSE
      LET language == option
          config == [status |-> STOPPED, config |-> CONF[language], instance |-> None]
      IN
      IF language \notin DOMAIN m.clients
      THEN [m EXCEPT
              !.clients = [l \in DOMAIN m.clients \cup {language} |->
                              IF l = language THEN config ELSE m.clients[l]],
              !.register_queue = [l \in DOMAIN m.register_queue \cup {language} |->
                              IF l = language THEN <<>> ELSE m.register_queue[l]]]
      ELSE
        LET current_config == m.clients[language].config
            new_config == config.config
        IN
        IF NeedsRestart(current_config, new_config)
        THEN IF m.clients[language].status = STOPPED
             THEN [m EXCEPT !.clients[language] = config]
             ELSE LET m1 == close_client(m, language, fail_stop) IN
                  IF m1.raised THEN m1
                  ELSE start_client([m1 EXCEPT !.clients[language] = config],
                                    language, project, busy, fail_start)
        ELSE IF m.clients[language].status = RUNNING
             THEN [m EXCEPT !.calls =
                      Append(@, Call("send_plugin_configurations", language,
                                     m.clients[language].instance,
                                     new_config.configurations))]
             ELSE m

RECURSIVE update_loop(_, _, _, _, _, _, _)
update_loop(m, options, i, project, busy, fail_start, fail_stop) ==
    IF i > Len(options) \/ m.raised THEN m
    ELSE update_loop(update_one(m, options[i], project, busy, fail_start, fail_stop),
                     options, i + 1, project, busy, fail_start, fail_stop)

update_server_list(m, project, busy, fail_start, fail_stop) ==
    [update_loop(m, OrderOf(DOMAIN CONF, 1), 1, project, busy, fail_start, fail_stop)
        EXCEPT !.ret = "None"]

\* ----------------------------------------------------------- register_file
\* register_file as it would be if it kept the registrations of a language
\* without a record for a later start.
register_file_keeps_unknown(m, language, filename, signal) ==
    IF language \notin DOMAIN m.clients
    THEN [m EXCEPT !.register_queue =
             [l \in DOMAIN m.register_queue \cup {language} |->
                 IF l = language THEN <<<<filename, signal>>>>
                 ELSE m.register_queue[l]]]
    ELSE LET language_client == m.clients[language].instance IN
         IF language_client = None
         THEN [m EXCEPT !.register_queue[language] = Append(@, <<filename, signal>>)]
         ELSE [m EXCEPT !.calls =
                  Append(@, Call("register_file", language, language_client,
                                 <<filename, signal>>))]

register_file(m, language, filename, signal) ==
    IF language \notin DOMAIN m.clients THEN m
    ELSE LET language_client == m.clients[language].instance IN
         IF language_client = None
         THEN [m EXCEPT !.register_queue[language] = Append(@, <<filename, signal>>)]
         ELSE [m EXCEPT !.calls =
                  Append(@, Call("register_file", language, language_client,
                                 <<filename, signal>>))]

\* ------------------------------------------------------------ send_request
\* send_request as it would be if it looked at the instance slot, as
\* register_file does, and not at the status.
send_request_by_instance(m, language, request, params) ==
    IF language \notin DOMAIN m.clients THEN m
    ELSE IF m.clients[language].instance # None
    THEN [m EXCEPT !.calls =
             Append(@, Call("perform_request", language,
                            m.clients[language].instance, <<request, params>>))]
    ELSE m

send_request(m, language, request, params) ==
    IF language \notin DOMAIN m.clients THEN m
    ELSE IF m.clients[language].status = RUNNING
    THEN [m EXCEPT !.calls =
             Append(@, Call("perform_request", language,
                            m.clients[language].instance, <<request, params>>))]
    ELSE m

\* ------------------------------------------------ reinitialize_all_clients
RECURSIVE reinitialize_loop(_, _, _, _)
reinitialize_loop(m, order, i, project) ==
    IF i > Len(order) THEN m
    ELSE LET language == order[i]
             language_client == m.clients[language]
         IN reinitialize_loop(
              IF language_client.status = RUNNING
              THEN [m EXCEPT !.calls = @ \o
                      <<Call("get_active_project_path", language, None, project),
                        Call("folder", language, language_client.instance,
                             get_root_path(language, project)),
                        Call("initialize", language, language_client.instance, "-")>>]
              ELSE m,
              order, i + 1, project)

\* reinitialize_all_clients as it would be if it took every language that
\* holds an instance for a running one.
reinitialize_all_held(m, project) ==
    LET held == [l \in DOMAIN m.clients |->
                    IF m.clients[l].instance # None
                    THEN [m.clients[l] EXCEPT !.status = RUNNING]
                    ELSE m.clients[l]]
    IN [reinitialize_loop([m EXCEPT !.clients = held],
                          OrderOf(DOMAIN m.clients, 1), 1, project)
           EXCEPT !.clients = m.clients]

reinitialize_all_clients(m, project) ==
    reinitialize_loop(m, OrderOf(DOMAIN m.clients, 1), 1, project)

\* ---------------------------------------------------- register_plugin_type
\* self.lsp_plugins[type] = sig: a new key goes last, a known key keeps
\* its place.
register_plugin_type(plugins, type, sig) ==
    IF \E i \in 1..Len(plugins) : plugins[i][1] = type
    THEN [i \in 1..Len(plugins) |->
             IF plugins[i][1] = type THEN <<type, sig>> ELSE plugins[i]]
    ELSE Append(plugins, <<type, sig>>)

\* ------------------------------------------------------------------- state
NoArg == [language |-> "-"]
NoCall == [op |-> "-", arg |-> NoArg, ret |-> "None", raised |-> FALSE, calls |-> <<>>]

\* The callers of start_client whose calls may overlap, each at a place of
\* the method, and the collaborator calls and the clearings of a queue they
\* have made together.
Callers == {1, 2}
NoneStarting ==
    [pc |-> [t \in Callers |-> "idle"], language |-> [t \in Callers |-> "-"],
     calls |-> <<>>]

Init ==
    /\ CONF = [l \in {"python"} |-> BaseConfig]
    /\ clients = [l \in {"python"} |->
                    [status |-> STOPPED, config |-> BaseConfig, instance |-> None]]
    /\ register_queue = [l \in {"python"} |-> <<>>]
    /\ lsp_plugins = <<>>
    /\ environ \in Environments
    /\ last = NoCall
    /\ starting = NoneStarting

RECURSIVE Queued(_, _)
Queued(queues, S) ==
    IF S = {} THEN 0
    ELSE LET l == CHOOSE x \in S : TRUE
         IN Len(queues[l]) + Queued(queues, S \ {l})

\* The manager's state after a method, and the record of the call.
Commit(op, arg, m) ==
    /\ last.op = "-"
    /\ Queued(m.register_queue, DOMAIN m.register_queue) <= MaxQueue
    /\ clients' = m.clients
    /\ register_queue' = m.register_queue
    /\ last' = [op |-> op, arg |-> arg,
                ret |-> IF m.raised THEN "None" ELSE m.ret,
                raised |-> m.raised, calls |-> m.calls]
    /\ starting' = starting

\* The ports other processes hold: all the ports below some port.  With
\* faulty false the last port is always free, and select_port finds a port.
BusySets(faulty) ==
    { 1..k : k \in 0..(IF faulty THEN MaxPort ELSE MaxPort - 1) }

\* The languages whose client may fail to stop, or to start, in a method:
\* only the stop of a running client and the start of a known language's
\* client are ever called.  With faulty false no client fails.
MayFailStop(faulty) ==
    IF faulty THEN SUBSET {l \in DOMAIN clients : clients[l].status = RUNNING}
    ELSE {{}}

MayFailStart(faulty) ==
    IF faulty /\ ~SuppressedByCI THEN SUBSET (DOMAIN clients) ELSE {{}}

StartClient(faulty) ==
    \E language \in Langs, project \in Projects, busy \in BusySets(faulty),
       fail_start \in MayFailStart(faulty) :
        /\ fail_start \subseteq {language}
        /\ Commit("start_client", [language |-> language],
                  start_client(Machine, language, project, busy, fail_start))
        /\ UNCHANGED <<lsp_plugins, CONF, environ>>

CloseClient(faulty) ==
    \E language \in Langs, fail_stop \in MayFailStop(faulty) :
        /\ fail_stop \subseteq {language}
        /\ Commit("close_client", [language |-> language],
                  close_client(Machine, language, fail_stop))
        /\ UNCHANGED <<lsp_plugins, CONF, environ>>

Shutdown(faulty) ==
    \E fail_stop \in MayFailStop(faulty) :
        /\ Commit("shutdown", NoArg, shutdown(Machine, fail_stop))
        /\ UNCHANGED <<lsp_plugins, CONF, environ>>

\* update_server_list starts only clients of languages it has stopped.
UpdateServerList(faulty) ==
    \E project \in Projects, busy \in BusySets(faulty),
       fail_start \in MayFailStop(faulty), fail_stop \in MayFailStop(faulty) :
        /\ Commit("update_server_list", NoArg,
                  update_server_list(Machine, project, busy, fail_start, fail_stop))
        /\ UNCHANGED <<lsp_plugins, CONF, environ>>

UpdateClientStatus(faulty) ==
    \E active_set \in SUBSET Langs, fail_stop \in MayFailStop(faulty) :
        /\ Commit("update_client_status", [language |-> "-", active_set |-> active_set],
                  update_client_status(Machine, active_set, fail_stop))
        /\ UNCHANGED <<lsp_plugins, CONF, environ>>

RegisterFile ==
    \E language \in Langs, filename \in Files, signal \in Signals :
        /\ Commit("register_file",
                  [language |-> language, filename |-> filename, signal |-> signal],
                  register_file(Machine, language, filename, signal))
        /\ UNCHANGED <<lsp_plugins, CONF, environ>>

SendRequest ==
    \E language \in Langs, request \in Requests :
        /\ Commit("send_request",
                  [language |-> language, request |-> request, params |-> "params"],
                  send_request(Machine, language, request, "params"))
        /\ UNCHANGED <<lsp_plugins, CONF, environ>>

ReinitializeAllClients ==
    \E project \in Projects :
        /\ Commit("reinitialize_all_clients", NoArg,
                  reinitialize_all_clients(Machine, project))
        /\ UNCHANGED <<lsp_plugins, CONF, environ>>

RegisterPluginType ==
    \E type \in PluginTypes, sig \in Signals :
        /\ lsp_plugins' = register_plugin_type(lsp_plugins, type, sig)
        /\ Commit("register_plugin_type", [language |-> "-", type |-> type, sig |-> sig], Machine)
        /\ UNCHANGED <<CONF, environ>>

\* The user edits the Preferences: the configuration of a language is set.
SetConf ==
    \E language \in Langs : \E config \in ConfChoices(language) :
        /\ CONF' = [l \in DOMAIN CONF \cup {language} |->
                       IF l = language THEN config ELSE CONF[l]]
        /\ CONF' # CONF
        /\ last.op = "-"
        /\ UNCHANGED <<clients, register_queue, lsp_plugins, environ, last, starting>>

\* The caller has the result of the call.
Return ==
    /\ last.op # "-"
    /\ last' = NoCall
    /\ UNCHANGED <<clients, register_queue, lsp_plugins, CONF, environ, starting>>

Next ==
    \/ StartClient(TRUE)
    \/ CloseClient(TRUE)
    \/ Shutdown(TRUE)
    \/ UpdateServerList(TRUE)
    \/ UpdateClientStatus(TRUE)
    \/ RegisterFile
    \/ SendRequest
    \/ ReinitializeAllClients
    \/ RegisterPluginType
    \/ SetConf
    \/ Return

Spec == Init /\ [][Next]_vars

\* The manager with clients whose start and stop never fail.
NextReliable ==
    \/ StartClient(FALSE)
    \/ CloseClient(FALSE)
    \/ Shutdown(FALSE)
    \/ UpdateServerList(FALSE)
    \/ UpdateClientStatus(FALSE)
    \/ RegisterFile
    \/ SendRequest
    \/ ReinitializeAllClients
    \/ RegisterPluginType
    \/ SetConf
    \/ Return

SpecReliable == Init /\ [][NextReliable]_vars

\* ------------------------------------------------- overlapping start_client
\* start_client in the steps between which another call of it can run: the
\* method takes no lock and keeps no mark of a start in progress.

\* Lines 118-131: the caller enters and reads the status.
BeginStart(t) ==
    \E language \in Langs :
        /\ starting.pc[t] = "idle"
        /\ starting' = [starting EXCEPT
              !.language[t] = language,
              !.pc[t] = IF /\ language \in DOMAIN clients
                           /\ ~SuppressedByCI
                           /\ clients[language].status = STOPPED
                        THEN "construct" ELSE "done"]
        /\ UNCHANGED <<clients, register_queue, lsp_plugins, CONF, environ, last>>

\* Lines 132-146: the port, the new LSPClient in the instance slot, and the
\* plugin registrations replayed to it.
ConstructClient(t) ==
    \E project \in Projects, busy \in BusySets(FALSE) :
        LET language == starting.language[t]
            config == IF ~clients[language].config.external
                      THEN [clients[language].config EXCEPT
                               !.port = select_port(@, busy)]
                      ELSE clients[language].config
            instance == NewInstance(language)
        IN /\ starting.pc[t] = "construct"
           /\ clients' = [clients EXCEPT ![language].config = config,
                                         ![language].instance = instance]
           /\ starting' = [starting EXCEPT
                 !.pc[t] = "start",
                 !.calls = @ \o <<Call("LSPClient", language, instance,
                                       [server_settings |-> config,
                                        folder |-> get_root_path(language, project)])>>
                             \o PluginCalls(language, instance, 1)]
           /\ UNCHANGED <<register_queue, lsp_plugins, CONF, environ, last>>

\* Lines 149-150: start() of the instance the slot holds now, and the status.
StartInstance(t) ==
    LET language == starting.language[t] IN
    /\ starting.pc[t] = "start"
    /\ clients' = [clients EXCEPT ![language].status = RUNNING]
    /\ starting' = [starting EXCEPT
          !.pc[t] = "drain",
          !.calls = Append(@, Call("start", language, clients[language].instance, "-"))]
    /\ UNCHANGED <<register_queue, lsp_plugins, CONF, environ, last>>

\* Lines 151-153: the drain, which raises on the first entry, and the queue
\* cleared.
DrainQueue(t) ==
    LET language == starting.language[t] IN
    /\ starting.pc[t] = "drain"
    /\ IF register_queue[language] # <<>>
       THEN /\ starting' = [starting EXCEPT !.pc[t] = "raised"]
            /\ UNCHANGED register_queue
       ELSE /\ starting' = [starting EXCEPT
                  !.pc[t] = "done",
                  !.calls = Append(@, Call("clear_queue", language, None, "-"))]
            /\ register_queue' = [register_queue EXCEPT ![language] = <<>>]
    /\ UNCHANGED <<clients, lsp_plugins, CONF, environ, last>>

\* Two callers of start_client, each calling it once, with files and plugin
\* types registered meanwhile; no client is stopped and none fails.
NextOverlap ==
    \/ \E t \in Callers : BeginStart(t)
    \/ \E t \in Callers : ConstructClient(t)
    \/ \E t \in Callers : StartInstance(t)
    \/ \E t \in Callers : DrainQueue(t)
    \/ RegisterFile
    \/ RegisterPluginType
    \/ Return

SpecOverlap == Init /\ [][NextOverlap]_vars

\* ------------------------------------------------------------------ claims
\* A method named op is called in this step.
Called(op) == last.op = "-" /\ last'.op = op

\* The collaborator calls named name that a call record holds for a language.
CallsTo(calls, name, language) ==
    SelectSeq(calls, LAMBDA c : c.call = name /\ c.language = language)

ArgsOf(calls) == [i \in 1..Len(calls) |-> calls[i].arg]

\* C1: in every state, for every known language, the instance slot of the
\* record is non-empty if and only if the status is Running.
C1_InstanceIffRunning ==
    \A L \in DOMAIN clients :
        (clients[L].instance # None) <=> (clients[L].status = RUNNING)

\* C2: start(L) on a known language returns true exactly when the call made
\* the Stopped->Running transition, and then L is Running; a start(L) that
\* made no transition returns false and changes nothing.
C2_StartReturnsTransition ==
    [][Called("start_client") /\ last'.arg.language \in DOMAIN clients =>
        LET L == last'.arg.language
            transition == clients[L].status = STOPPED /\ clients'[L].status = RUNNING
        IN /\ (last'.ret = "True") <=> transition
           /\ last'.ret = "True" => clients'[L].status = RUNNING
           /\ ~transition /\ ~last'.raised =>
                 /\ last'.ret = "False"
                 /\ clients' = clients
                 /\ register_queue' = register_queue]_vars

\* C3: when start(L) makes a Stopped language Running, the new instance
\* receives through register_file exactly the registrations waiting in the
\* queue of L, each once and in the order they were queued, and the queue of
\* L is empty when start(L) is over.
C3_StartDrainsQueue ==
    [][Called("start_client") /\ last'.arg.language \in DOMAIN clients =>
        LET L == last'.arg.language
            delivered == CallsTo(last'.calls, "register_file", L)
        IN clients[L].status = STOPPED /\ clients'[L].status = RUNNING =>
              /\ ArgsOf(delivered) = register_queue[L]
              /\ \A i \in 1..Len(delivered) :
                    delivered[i].instance = clients'[L].instance
              /\ register_queue'[L] = <<>>
              /\ ~last'.raised]_vars

\* C4: registerFile(L, f, t) on a known language that is Stopped appends
\* (f, t) to the queue of L and forwards it to no client instance; on one
\* that is Running it forwards (f, t) to the live instance and leaves the
\* queue as it is.
C4_RegisterFileQueuesOrForwards ==
    [][Called("register_file") /\ last'.arg.language \in DOMAIN clients =>
        LET L == last'.arg.language
            entry == <<last'.arg.filename, last'.arg.signal>>
        IN /\ clients[L].status = STOPPED =>
                 /\ register_queue'[L] = Append(register_queue[L], entry)
                 /\ last'.calls = <<>>
           /\ clients[L].status = RUNNING =>
                 /\ last'.calls = <<Call("register_file", L, clients[L].instance, entry)>>
                 /\ register_queue' = register_queue]_vars

\* C5: a configuration refresh in which the new configuration of a Running
\* language L differs from the stored one only in fields that do not trigger
\* a restart makes no stop and no start of a client of L, keeps the instance
\* of L, and sends the new plugin settings to that instance exactly once.
C5_RefreshWithoutRestart ==
    [][Called("update_server_list") =>
        \A L \in DOMAIN clients \cap DOMAIN CONF :
            /\ clients[L].status = RUNNING
            /\ clients[L].config # CONF[L]
            /\ ~NeedsRestart(clients[L].config, CONF[L])
            => /\ CallsTo(last'.calls, "stop", L) = <<>>
               /\ CallsTo(last'.calls, "start", L) = <<>>
               /\ CallsTo(last'.calls, "LSPClient", L) = <<>>
               /\ clients'[L].instance = clients[L].instance
               /\ clients'[L].status = RUNNING
               /\ CallsTo(last'.calls, "send_plugin_configurations", L) =
                     <<Call("send_plugin_configurations", L, clients[L].instance,
                            CONF[L].configurations)>>]_vars

\* The configuration a client of a language is constructed with when the
\* record holds config: the port of a server the manager spawns is the one
\* select_port found.
ConstructedWith(settings, config) ==
    IF config.external THEN settings = config
    ELSE \E port \in Ports : settings = [config EXCEPT !.port = port]

\* C6: a configuration refresh in which a restart-triggering field of a
\* Running language L differs makes exactly one stop, of the old instance,
\* followed by exactly one start, of a new instance that was constructed with
\* the new configuration, and L is Running afterwards.
C6_RefreshWithRestart ==
    [][Called("update_server_list") =>
        \A L \in DOMAIN clients \cap DOMAIN CONF :
            /\ clients[L].status = RUNNING
            /\ NeedsRestart(clients[L].config, CONF[L])
            => LET lifecycle == SelectSeq(last'.calls,
                                   LAMBDA c : c.language = L
                                              /\ c.call \in {"stop", "LSPClient", "start"})
               IN /\ Len(lifecycle) = 3
                  /\ lifecycle[1] = Call("stop", L, clients[L].instance, "-")
                  /\ lifecycle[2].call = "LSPClient"
                  /\ lifecycle[2].instance # clients[L].instance
                  /\ ConstructedWith(lifecycle[2].arg.server_settings, CONF[L])
                  /\ lifecycle[3] = Call("start", L, lifecycle[2].instance, "-")
                  /\ clients'[L].instance = lifecycle[2].instance
                  /\ clients'[L].status = RUNNING]_vars

\* C7: after a configuration refresh in which no restart-triggering field of
\* a known language L differs, the record of L holds the new configuration,
\* whether L is Stopped or Running.
C7_RefreshStoresConfiguration ==
    [][Called("update_server_list") =>
        \A L \in DOMAIN clients \cap DOMAIN CONF :
            ~NeedsRestart(clients[L].config, CONF[L])
            => clients'[L].config = CONF[L]]_vars

\* C8: shutdown() leaves every known language Stopped and calls the stop
\* of the instance once for every language that was Running and never for
\* one that was Stopped.
C8_ShutdownStopsAll ==
    [][Called("shutdown") =>
        \A L \in DOMAIN clients :
            /\ clients'[L].status = STOPPED
            /\ CallsTo(last'.calls, "stop", L) =
                  IF clients[L].status = RUNNING
                  THEN <<Call("stop", L, clients[L].instance, "-")>>
                  ELSE <<>>]_vars

\* C9: stop(L) on a Running language leaves L Stopped even when the stop of
\* the instance fails, and in shutdown() the failing stop of one language
\* does not keep the other languages from being stopped.
C9_StopFailureStillStops ==
    [][/\ Called("close_client") /\ last'.arg.language \in DOMAIN clients
          => clients'[last'.arg.language].status = STOPPED
       /\ Called("shutdown")
          => \A L \in DOMAIN clients :
                clients[L].status = RUNNING =>
                   Len(CallsTo(last'.calls, "stop", L)) = 1]_vars

\* C10: updateActiveLanguages(subset) leaves every Running language outside
\* subset Stopped, with one stop of its instance, and leaves the status, the
\* instance, the configuration and the queue of every language of subset as
\* they are.
C10_UpdateActiveLanguages ==
    [][Called("update_client_status") =>
        \A L \in DOMAIN clients :
            /\ L \notin last'.arg.active_set /\ clients[L].status = RUNNING
               => /\ clients'[L].status = STOPPED
                  /\ CallsTo(last'.calls, "stop", L) =
                        <<Call("stop", L, clients[L].instance, "-")>>
            /\ L \in last'.arg.active_set
               => /\ clients'[L] = clients[L]
                  /\ register_queue'[L] = register_queue[L]
                  /\ CallsTo(last'.calls, "stop", L) = <<>>]_vars

\* C11: sendRequest(L, kind, params) calls perform_request, once and on the
\* instance the record of L holds, only when L is known and Running; for an
\* unknown or Stopped L it makes no collaborator call; in both cases it
\* queues nothing and leaves every record and every queue as it is.
C11_SendRequestOnlyWhenRunning ==
    [][Called("send_request") =>
        LET L == last'.arg.language
            live == L \in DOMAIN clients /\ clients[L].status = RUNNING
        IN /\ clients' = clients
           /\ register_queue' = register_queue
           /\ ~last'.raised
           /\ live => last'.calls =
                         <<Call("perform_request", L, clients[L].instance,
                                <<last'.arg.request, last'.arg.params>>)>>
           /\ ~live => last'.calls = <<>>]_vars

\* A request was sent to the instance of a Running language.
C11_Witness_Sent ==
    /\ last.op = "send_request"
    /\ Len(last.calls) = 1
    /\ last.calls[1].call = "perform_request"

\* ------------------------------------------------------------------- C12
\* A start_client step in which instance.start() raised: the method ended
\* with an exception before line 150 set the status.  (The other exception
\* of start_client, in the drain of line 152, comes after status = RUNNING.)
StartFailed(language) ==
    /\ Called("start_client")
    /\ last'.arg.language = language
    /\ last'.raised
    /\ last'.calls[Len(last'.calls)].call = "start"
    /\ clients'[language].status = STOPPED

\* C12: when the instance's start operation fails during start(L), the
\* record of L is left consistent: L is not Running and no instance remains
\* recorded for L, so that a later registerFile(L, ...) is queued and not
\* forwarded to the instance whose start failed.
C12_StartFailureLeavesNoInstance ==
    [][\A language \in Langs :
          StartFailed(language) =>
             /\ clients'[language].status # RUNNING
             /\ clients'[language].instance = None
             /\ register_file([Machine EXCEPT !.clients = clients',
                                              !.register_queue = register_queue'],
                              language, "a.py", "sig").calls = <<>>]_vars

\* ------------------------------------------------------------------- C13
\* A method ended in this step with the exception of select_port.
PortFailed ==
    /\ last'.raised
    /\ last'.calls # <<>>
    /\ last'.calls[Len(last'.calls)].call = "select_port"

\* The place of a language in the iteration order of the dictionaries.
PlaceOf(language) == CHOOSE i \in 1..Len(LangOrder) : LangOrder[i] = language

\* C13: when port allocation fails during start(L), L is Stopped afterwards
\* and no client was constructed for it; start(L) leaves the record and the
\* queue of every other language as they were; and a configuration refresh
\* in which the start failed still reconciles the languages that come after
\* L: an unknown one gets its record, a Running one is stopped for a restart
\* or is sent its plugin settings.
C13_PortFailureIsLocal ==
    [][(Called("start_client") \/ Called("update_server_list")) /\ PortFailed =>
        LET L == last'.calls[Len(last'.calls)].language IN
        /\ clients'[L].status = STOPPED
        /\ CallsTo(last'.calls, "LSPClient", L) = <<>>
        /\ Called("start_client") =>
              \A O \in DOMAIN clients \ {L} :
                  clients'[O] = clients[O] /\ register_queue'[O] = register_queue[O]
        /\ Called("update_server_list") =>
              \A O \in DOMAIN CONF :
                  PlaceOf(O) > PlaceOf(L) =>
                     /\ O \in DOMAIN clients'
                     /\ O \in DOMAIN clients /\ clients[O].status = RUNNING =>
                           IF NeedsRestart(clients[O].config, CONF[O])
                           THEN CallsTo(last'.calls, "stop", O) # <<>>
                           ELSE CallsTo(last'.calls, "send_plugin_configurations", O)
                                   # <<>>]_vars

\* ------------------------------------------------------------------- C14
\* C14: for a language without a record, start(L), stop(L), registerFile(L,
\* ...) and sendRequest(L, ...) do nothing: no record and no queue is made
\* for L, no client is constructed and no collaborator is called, the records
\* and queues of the known languages stay as they are, no exception leaves
\* the method, and start returns false.
C14_UnknownLanguageIsIgnored ==
    [][\A op \in {"start_client", "close_client", "register_file", "send_request"} :
          Called(op) /\ last'.arg.language \notin DOMAIN clients =>
             /\ clients' = clients
             /\ register_queue' = register_queue
             /\ last'.calls = <<>>
             /\ ~last'.raised
             /\ op = "start_client" => last'.ret = "False"]_vars

\* A file was registered for a language without a record while another
\* language was Running.
C14_Witness_UnknownRegistered ==
    /\ last.op = "register_file"
    /\ last.arg.language \notin DOMAIN clients
    /\ \E L \in DOMAIN clients : clients[L].status = RUNNING

\* ------------------------------------------------------------------- C15
\* The collaborator calls a call record holds for a language.
CallsFor(calls, language) ==
    SelectSeq(calls, LAMBDA c : c.language = language)

\* C15: reinitializeAll() leaves every record (status, instance,
\* configuration) and every queue as it is; for each Running language it
\* resolves the root path anew, sets the folder of the instance to it and
\* calls initialize on the instance, once and in this order; for a Stopped
\* language, also one that holds the instance of an earlier run, it makes no
\* call.
C15_ReinitializeAll ==
    [][Called("reinitialize_all_clients") =>
        /\ clients' = clients
        /\ register_queue' = register_queue
        /\ ~last'.raised
        /\ \A L \in DOMAIN clients :
              LET made == CallsFor(last'.calls, L) IN
              IF clients[L].status = RUNNING
              THEN /\ Len(made) = 3
                   /\ made[1].call = "get_active_project_path"
                   /\ made[2] = Call("folder", L, clients[L].instance,
                                     IF made[1].arg # NoProject THEN made[1].arg
                                     ELSE IF L = "python" THEN "lsp_root_path"
                                     ELSE "getcwd_or_home")
                   /\ made[3] = Call("initialize", L, clients[L].instance, "-")
              ELSE made = <<>>]_vars

\* reinitializeAll() ran while one language was Running and another was
\* Stopped with the instance of an earlier run in its record.
C15_Witness_RunningAndStale ==
    /\ last.op = "reinitialize_all_clients"
    /\ \E L \in DOMAIN clients : clients[L].status = RUNNING
    /\ \E L \in DOMAIN clients :
          clients[L].status = STOPPED /\ clients[L].instance # None

\* ------------------------------------------------------------------- C16
\* The places in calls of the calls named name on an instance of a language.
PlacesOf(calls, name, language, instance) ==
    {i \in 1..Len(calls) : /\ calls[i].call = name
                           /\ calls[i].language = language
                           /\ calls[i].instance = instance}

\* C16: every client instance start_client constructs, in a start(L) or in
\* the restart of a configuration refresh, receives the plugin-type
\* registrations of the registry, each once and in the registry's order,
\* after its construction and before its start() is called; a
\* registerPluginType call stores the registration for the later starts and
\* calls no instance, Running ones included.
C16_PluginsReplayedBeforeStart ==
    [][/\ Called("start_client") \/ Called("update_server_list") =>
          \A i \in 1..Len(last'.calls) :
             last'.calls[i].call = "LSPClient" =>
                LET c == last'.calls[i]
                    replayed == PlacesOf(last'.calls, "register_plugin_type",
                                         c.language, c.instance)
                    started == PlacesOf(last'.calls, "start", c.language, c.instance)
                IN /\ ArgsOf(SelectSeq(last'.calls,
                                LAMBDA d : /\ d.call = "register_plugin_type"
                                           /\ d.language = c.language
                                           /\ d.instance = c.instance))
                         = lsp_plugins
                   /\ Cardinality(started) = 1
                   /\ \A j \in replayed : \A k \in started : i < j /\ j < k
       /\ Called("register_plugin_type") =>
             /\ last'.calls = <<>>
             /\ clients' = clients
             /\ \E i \in 1..Len(lsp_plugins') :
                   lsp_plugins'[i] = <<last'.arg.type, last'.arg.sig>>
             /\ \A i \in 1..Len(lsp_plugins') :
                   lsp_plugins'[i][1] = last'.arg.type
                   \/ (i <= Len(lsp_plugins) /\ lsp_plugins'[i] = lsp_plugins[i])]_vars

\* A language was started again, after a plugin type had been registered,
\* and its new instance received the registration.
C16_Witness_ReplayedOnRestart ==
    /\ last.op \in {"start_client", "update_server_list"}
    /\ \E i \in 1..Len(last.calls) :
          /\ last.calls[i].call = "register_plugin_type"
          /\ last.calls[i].instance = 2

\* ------------------------------------------------------------------- C17
\* C17: in every state, for every known language, a Running language has an
\* empty queue: start empties the queue when it makes the language Running
\* and no registration is queued while the language is Running.
C17_RunningQueueEmpty ==
    \A L \in DOMAIN clients :
        clients[L].status = RUNNING => register_queue[L] = <<>>

\* ------------------------------------------------------------------- C18
\* C18: overlapping start(L) calls for a Stopped language do not race: for
\* every language at most one client is constructed and at most one start()
\* is called, the queue is cleared at most once, and every instance whose
\* start() was called is the one the record holds.
C18_OverlappingStartsDoNotRace ==
    \A L \in Langs :
        LET places(name) == {i \in 1..Len(starting.calls) :
                                /\ starting.calls[i].call = name
                                /\ starting.calls[i].language = L}
        IN /\ Cardinality(places("LSPClient")) <= 1
           /\ Cardinality(places("start")) <= 1
           /\ Cardinality(places("clear_queue")) <= 1
           /\ \A i \in places("start") :
                 starting.calls[i].instance = clients[L].instance

\* ------------------------------------------------------------------- C19
\* C19: with the CI flag set and the override flag not set, start(L) for a
\* known language returns false and changes nothing: no port is looked for,
\* no client is constructed, the status stays Stopped and the queue is
\* neither drained nor cleared.  With the override flag set as well, start
\* goes on as without the CI flag: for a Stopped language it sets out to
\* start a client, for a Running one it returns true.
C19_StartSuppressedInCI ==
    [][Called("start_client") /\ last'.arg.language \in DOMAIN clients /\ environ.CI =>
        LET L == last'.arg.language IN
        IF ~environ.SPY_TEST_USE_INTROSPECTION
        THEN /\ last'.ret = "False"
             /\ ~last'.raised
             /\ last'.calls = <<>>
             /\ clients' = clients
             /\ clients[L].status = STOPPED
             /\ register_queue' = register_queue
        ELSE IF clients[L].status = STOPPED
        THEN /\ last'.calls # <<>>
             /\ ~last'.raised => /\ clients'[L].status = RUNNING
                                 /\ CallsTo(last'.calls, "start", L) # <<>>
        ELSE /\ last'.ret = "True"
             /\ last'.calls = <<>>]_vars

\* start was called under CI, without the override, for a language with
\* file registrations waiting.
C19_Witness_SuppressedWithQueue ==
    /\ last.op = "start_client"
    /\ last.arg.language \in DOMAIN clients
    /\ environ.CI /\ ~environ.SPY_TEST_USE_INTROSPECTION
    /\ register_queue[last.arg.language] # <<>>

\* ------------------------------------------------------------------- C20
\* C20: a configuration refresh made while CONF holds for a Running language
\* L, whose server the manager spawned, the configuration the record of L
\* was loaded from (the record differs from it at most in the port that
\* start wrote back) makes no stop and no start of a client of L and keeps
\* the instance of L.
C20_RefreshOfUnchangedConf ==
    [][Called("update_server_list") =>
        \A L \in DOMAIN clients \cap DOMAIN CONF :
            /\ clients[L].status = RUNNING
            /\ ~clients[L].config.external
            /\ [clients[L].config EXCEPT !.port = CONF[L].port] = CONF[L]
            => /\ CallsTo(last'.calls, "stop", L) = <<>>
               /\ CallsTo(last'.calls, "LSPClient", L) = <<>>
               /\ CallsTo(last'.calls, "start", L) = <<>>
               /\ clients'[L].instance = clients[L].instance
               /\ clients'[L].status = RUNNING]_vars

====
